---- MODULE Spec2Model ----
(***************************************************************************)
(* Pre-trade safety layer of ibkr_quant_core.                              *)
(*                                                                         *)
(*   src/src/execution.py                      ExecutionManager            *)
(*   src/src/market_adapters/ibkr/execution.py IBKRExecutionHandler        *)
(*   src/src/market_adapters/ibkr/connection.py IBConnection               *)
(*                                                                         *)
(* Prices are whole currency units.  The Python code computes in binary    *)
(* floating point; for the integer inputs drawn here every product and     *)
(* difference is exact and the one quotient, abs(lp - p) / p, is compared  *)
(* with the literal 0.05 by cross-multiplication: a ratio of integers      *)
(* below 10^6 that differs from 1/20 differs by far more than one ulp, so  *)
(* the float comparison and the exact one agree.                           *)
(***************************************************************************)
EXTENDS Integers, Sequences, FiniteSets, TLC

VARIABLES
    limits,         \* the three class attributes of ExecutionManager
    order_details,  \* the order dictionary in the caller's hands
    current_price,  \* the market price the caller passes to the check
    check_result,   \* outcome of the latest check_order_limits call on it
    connected,      \* ib.isConnected()
    place_result,   \* what the latest place_order call returned
    ib_calls,       \* the ib.placeOrder calls made for this dictionary
    take_profit_pct, \* BaseStrategy.take_profit_pct, in percent
    bar,            \* data.Close[-1] and the ATR of the bar being evaluated
    entry_price,    \* BaseStrategy.entry_price
    trades,         \* the open trades of the backtest broker (the position)
    entry_orders,   \* orders placed by buy() / sell(), waiting for the next bar
    pc,             \* "bar": the engine advances; "next": strategy.next() runs
    base_done,      \* BaseStrategy.next() has run for this bar
    signals,        \* calls the child strategy made in this next()
    next_id,        \* number of the next trade to open
    events,         \* closes executed or instructed during this update
    place_trace,    \* what the latest place_order call met on its way
    broker,         \* the CustomBroker of a backtest
    adj_call,       \* the latest _adjusted_price call: arguments and result
    adj_prev,       \* the call before it
    calls           \* the check_order_limits calls made on one ExecutionManager

execVars == <<limits, order_details, current_price, check_result,
              connected, place_result, ib_calls>>

stratVars == <<take_profit_pct, bar, entry_price, trades, entry_orders, pc,
               base_done, signals, next_id, events>>

brokerVars == <<broker, adj_call, adj_prev>>

\* what the execution layer and the strategy leave alone
restVars == <<brokerVars, calls>>

vars == <<execVars, stratVars, place_trace, restVars>>

-----------------------------------------------------------------------------
(* Python values.  A limit price is a number or None; None is kept apart   *)
(* from every number so that the places where the code compares or         *)
(* multiplies it are visible.                                              *)

PyNone == [t |-> "NoneType", v |-> 0]

PyNum(n) == [t |-> "number", v |-> n]

IsNone(x) == x.t = "NoneType"

\* dict.get(key, default)
Get(d, k, default) == IF k \in DOMAIN d THEN d[k] ELSE default

Abs(n) == IF n < 0 THEN 0 - n ELSE n

-----------------------------------------------------------------------------
(* Hard limits, execution.py lines 15-17.  0.05 is kept as the fraction    *)
(* 5 / 100.                                                                *)

MAX_SHARES_PER_ORDER == 100

MAX_DOLLAR_VALUE_PER_ORDER == 5000

MAX_PRICE_DEVIATION_PERCENT == [num |-> 5, den |-> 100]

-----------------------------------------------------------------------------
(* Bounds of the inputs.                                                   *)

\* how far beyond a threshold (and below zero) the inputs reach
MaxOver == 1

\* how many times place_order may reach ib.placeOrder for one dictionary
MaxSubmits == 2

Symbols == {"AAPL", "SPY"}

Actions == {"BUY", "SELL"}

OrderTypes == {"MKT", "LMT", "STOP_LIMIT"}

Quantities == {1, 10, 50} \cup (MAX_SHARES_PER_ORDER .. MAX_SHARES_PER_ORDER + MaxOver)

CurrentPrices == ((0 - MaxOver) .. 0) \cup {100, 150}

\* around 100: exactly 5% away, just inside and just outside; 155 and 200
\* are the limit prices of test_execution_safety.py
LimitPrices ==
    ((0 - MaxOver) .. 0)
        \cup {100 - d : d \in 4 .. (5 + MaxOver)}
        \cup {100 + d : d \in 4 .. (5 + MaxOver)}
        \cup {155, 200}

BaseOrders ==
    { [symbol |-> s, action |-> a, quantity |-> q] :
        s \in Symbols, a \in Actions, q \in Quantities }

WithOrderType(S) == S \cup { o @@ ("order_type" :> t) : o \in S, t \in OrderTypes }

WithLimitPrice(S) ==
    S \cup { o @@ ("limit_price" :> l) :
                o \in S, l \in {PyNone} \cup { PyNum(n) : n \in LimitPrices } }

\* the dictionaries a caller can hand over: 'order_type' and 'limit_price'
\* are optional keys, 'limit_price' may be None
Orders == WithLimitPrice(WithOrderType(BaseOrders))

-----------------------------------------------------------------------------
(* ExecutionManager.check_order_limits                                     *)

Symbol(o) == Get(o, "symbol", "UNKNOWN")

Quantity(o) == Get(o, "quantity", 0)

OrderType(o) == Get(o, "order_type", "MKT")

LimitPrice(o) == Get(o, "limit_price", PyNum(0))

IsLimitType(order_type) == order_type \in {"LMT", "STOP_LIMIT"}

\* a quantity check that also rejects an order of exactly the limit
QuantityExceeds_Inclusive(quantity, lim) == quantity >= lim.MAX_SHARES_PER_ORDER

\* 1. Check Max Shares
QuantityExceeds(quantity, lim) == quantity > lim.MAX_SHARES_PER_ORDER

\* 2. the price the order value is estimated at
ExecPrice(order_type, limit_price, price) ==
    LET exec_price == IF IsLimitType(order_type) THEN limit_price ELSE PyNum(price)
    IN  IF IsNone(exec_price) \/ exec_price.v = 0 THEN price ELSE exec_price.v

\* a value check that also rejects an order worth exactly the limit
ValueExceeds_Inclusive(estimated_value, lim) ==
    estimated_value >= lim.MAX_DOLLAR_VALUE_PER_ORDER

ValueExceeds(estimated_value, lim) == estimated_value > lim.MAX_DOLLAR_VALUE_PER_ORDER

\* a deviation check that also rejects a limit price exactly 5% away
DeviationExceeds_Inclusive(limit_price, price, lim) ==
    Abs(limit_price - price) * lim.MAX_PRICE_DEVIATION_PERCENT.den
        >= lim.MAX_PRICE_DEVIATION_PERCENT.num * price

\* 3. deviation = abs(limit_price - current_price) / current_price, with
\* current_price > 0, against MAX_PRICE_DEVIATION_PERCENT
DeviationExceeds(limit_price, price, lim) ==
    Abs(limit_price - price) * lim.MAX_PRICE_DEVIATION_PERCENT.den
        > lim.MAX_PRICE_DEVIATION_PERCENT.num * price

\* a rejection handed back as a result instead of raised
Raised_AsFalse(exc, kind, o, value, limit) ==
    [outcome |-> "False", kind |-> kind, symbol |-> Symbol(o),
     value |-> value, limit |-> limit, exec_price |-> 0]

Raised(exc, kind, o, value, limit) ==
    [outcome |-> exc, kind |-> kind, symbol |-> Symbol(o),
     value |-> value, limit |-> limit, exec_price |-> 0]

Returned(o, exec_price) ==
    [outcome |-> "True", kind |-> "", symbol |-> Symbol(o),
     value |-> 0, limit |-> 0, exec_price |-> exec_price]

NotCalled ==
    [outcome |-> "not_called", kind |-> "", symbol |-> "",
     value |-> 0, limit |-> 0, exec_price |-> 0]

\* the same checks with the price deviation looked at before the value
check_order_limits_DeviationFirst(o, price, lim) ==
    LET quantity    == Quantity(o)
        order_type  == OrderType(o)
        limit_price == LimitPrice(o)
        exec_price  == IF (IF IsLimitType(order_type) THEN IsNone(limit_price) \/ limit_price.v = 0
                                                      ELSE price = 0)
                         THEN price
                         ELSE IF IsLimitType(order_type) THEN limit_price.v ELSE price
        estimated_value == exec_price * quantity
    IN  IF quantity > lim.MAX_SHARES_PER_ORDER
          THEN [outcome |-> "ValueError", kind |-> "QuantityExceeded",
                symbol |-> Symbol(o), value |-> quantity,
                limit |-> lim.MAX_SHARES_PER_ORDER, exec_price |-> 0]
        ELSE IF IsLimitType(order_type) /\ IsNone(limit_price)
          THEN [outcome |-> "TypeError", kind |-> "", symbol |-> Symbol(o),
                value |-> 0, limit |-> 0, exec_price |-> 0]
        ELSE IF /\ IsLimitType(order_type)
                /\ limit_price.v > 0
                /\ price > 0
                /\ Abs(limit_price.v - price) * lim.MAX_PRICE_DEVIATION_PERCENT.den
                      > lim.MAX_PRICE_DEVIATION_PERCENT.num * price
          THEN [outcome |-> "ValueError", kind |-> "PriceDeviationExceeded",
                symbol |-> Symbol(o), value |-> limit_price.v,
                limit |-> lim.MAX_PRICE_DEVIATION_PERCENT.num, exec_price |-> 0]
        ELSE IF estimated_value > lim.MAX_DOLLAR_VALUE_PER_ORDER
          THEN [outcome |-> "ValueError", kind |-> "NotionalExceeded",
                symbol |-> Symbol(o), value |-> estimated_value,
                limit |-> lim.MAX_DOLLAR_VALUE_PER_ORDER, exec_price |-> 0]
        ELSE [outcome |-> "True", kind |-> "", symbol |-> Symbol(o),
              value |-> 0, limit |-> 0, exec_price |-> exec_price]

(* Every rejection is a ValueError; the three kinds are told apart by the  *)
(* message ("Order quantity ...", "Order value ...", "Limit price ...").   *)
(* `None > 0` on line 64 is a TypeError.                                   *)
check_order_limits(o, price, lim) ==
    LET quantity    == Quantity(o)
        order_type  == OrderType(o)
        limit_price == LimitPrice(o)
        exec_price  == ExecPrice(order_type, limit_price, price)
        estimated_value == exec_price * quantity
    IN  IF QuantityExceeds(quantity, lim)
          THEN Raised("ValueError", "QuantityExceeded", o, quantity,
                      lim.MAX_SHARES_PER_ORDER)
        ELSE IF ValueExceeds(estimated_value, lim)
          THEN Raised("ValueError", "NotionalExceeded", o, estimated_value,
                      lim.MAX_DOLLAR_VALUE_PER_ORDER)
        ELSE IF IsLimitType(order_type) /\ IsNone(limit_price)
          THEN Raised("TypeError", "", o, 0, 0)
        ELSE IF /\ IsLimitType(order_type)
                /\ limit_price.v > 0
                /\ price > 0
                /\ DeviationExceeds(limit_price.v, price, lim)
          THEN Raised("ValueError", "PriceDeviationExceeded", o, limit_price.v,
                      lim.MAX_PRICE_DEVIATION_PERCENT.num)
        ELSE Returned(o, exec_price)

\* a validator that silently cuts an oversized order down to the limit
CheckOrderLimits_Clamping ==
    LET q == Quantity(order_details)
        clamped == IF q > limits.MAX_SHARES_PER_ORDER
                     THEN [order_details EXCEPT !["quantity"] = limits.MAX_SHARES_PER_ORDER]
                     ELSE order_details
    IN  /\ order_details' = clamped
        /\ check_result' = check_order_limits(clamped, current_price, limits)
        /\ UNCHANGED <<limits, current_price, connected, place_result, ib_calls>>
        /\ UNCHANGED <<stratVars, place_trace, restVars>>

\* a validator that lowers its share limit to the size it last let through
CheckOrderLimits_Tightening ==
    LET r == check_order_limits(order_details, current_price, limits)
    IN  /\ check_result' = r
        /\ limits' = IF r.outcome = "True"
                        THEN [limits EXCEPT !.MAX_SHARES_PER_ORDER = Quantity(order_details)]
                        ELSE limits
        /\ UNCHANGED <<order_details, current_price, connected, place_result, ib_calls>>
        /\ UNCHANGED <<stratVars, place_trace, restVars>>

CheckOrderLimits ==
    /\ check_result' = check_order_limits(order_details, current_price, limits)
    /\ UNCHANGED <<limits, order_details, current_price, connected,
                   place_result, ib_calls>>
    /\ UNCHANGED <<stratVars, place_trace, restVars>>

-----------------------------------------------------------------------------
(* IBConnection                                                            *)

\* connect(): ib.connect either succeeds or raises (and the error is re-raised)
Connect ==
    /\ connected' \in (IF connected THEN {TRUE} ELSE {TRUE, FALSE})
    /\ UNCHANGED <<limits, order_details, current_price, check_result,
                   place_result, ib_calls>>
    /\ UNCHANGED <<stratVars, place_trace, restVars>>

Disconnect ==
    /\ connected' = FALSE
    /\ UNCHANGED <<limits, order_details, current_price, check_result,
                   place_result, ib_calls>>
    /\ UNCHANGED <<stratVars, place_trace, restVars>>

-----------------------------------------------------------------------------
(* IBKRExecutionHandler                                                    *)

\* what ib.qualifyContracts can do
QualifyOutcomes == {"qualified", "empty", "raises"}

\* what ib.placeOrder can do
PlaceOrderOutcomes == {"trade", "raises"}

_create_contract(symbol, q) ==
    IF q = "qualified" THEN [symbol |-> symbol, contract |-> TRUE]
    ELSE [symbol |-> symbol, contract |-> FALSE]

_create_order(o) ==
    [orderType     |-> Get(o, "order_type", "MKT"),
     action        |-> Get(o, "action", "BUY"),
     totalQuantity |-> Get(o, "quantity", 0),
     lmtPrice      |-> Get(o, "limit_price", PyNone),
     auxPrice      |-> Get(o, "stop_price", PyNone)]

\* the guards place_order went through: is_connected(), the outcome of
\* ib.qualifyContracts and of ib.placeOrder ("not_called" when not reached)
PlaceTrace(is_connected, qualify, placeOrder) ==
    [is_connected |-> is_connected, qualify |-> qualify, placeOrder |-> placeOrder]

\* a place_order that tries ib.placeOrder a second time when it fails
PlaceOrder_Retrying ==
    \E q \in QualifyOutcomes, s \in PlaceOrderOutcomes :
        LET contract == [symbol |-> Get(order_details, "symbol", "UNKNOWN"),
                         contract |-> q = "qualified"]
            call == [contract |-> contract.symbol,
                     order    |-> [orderType     |-> Get(order_details, "order_type", "MKT"),
                                   action        |-> Get(order_details, "action", "BUY"),
                                   totalQuantity |-> Get(order_details, "quantity", 0),
                                   lmtPrice      |-> Get(order_details, "limit_price", PyNone),
                                   auxPrice      |-> Get(order_details, "stop_price", PyNone)],
                     checked  |-> check_result.outcome]
        IN  /\ Len(ib_calls) < MaxSubmits
            /\ IF ~connected
                 THEN /\ place_result' = "None"
                      /\ place_trace' = PlaceTrace(FALSE, "not_called", "not_called")
                      /\ UNCHANGED ib_calls
               ELSE IF ~contract.contract
                 THEN /\ place_result' = "None"
                      /\ place_trace' = PlaceTrace(TRUE, q, "not_called")
                      /\ UNCHANGED ib_calls
               ELSE /\ ib_calls' = IF s = "trade" THEN Append(ib_calls, call)
                                   ELSE Append(Append(ib_calls, call), call)
                    /\ place_result' = IF s = "trade" THEN "Trade" ELSE "None"
                    /\ place_trace' = PlaceTrace(TRUE, q, s)
            /\ UNCHANGED <<limits, order_details, current_price, check_result,
                           connected>>
            /\ UNCHANGED <<stratVars, restVars>>

(* place_order.  Each entry of ib_calls is one call of ib.placeOrder; its  *)
(* field `checked` records what check_order_limits had answered for the    *)
(* dictionary when the call was made.                                      *)
PlaceOrder ==
    \E q \in QualifyOutcomes, s \in PlaceOrderOutcomes :
        LET contract == _create_contract(Get(order_details, "symbol", "UNKNOWN"), q)
        IN  /\ Len(ib_calls) < MaxSubmits
            /\ IF ~connected
                 THEN /\ place_result' = "None"
                      /\ place_trace' = PlaceTrace(FALSE, "not_called", "not_called")
                      /\ UNCHANGED ib_calls
               ELSE IF ~contract.contract
                 THEN /\ place_result' = "None"
                      /\ place_trace' = PlaceTrace(TRUE, q, "not_called")
                      /\ UNCHANGED ib_calls
               ELSE /\ ib_calls' = Append(ib_calls,
                            [contract |-> contract.symbol,
                             order    |-> _create_order(order_details),
                             checked  |-> check_result.outcome])
                    /\ place_result' = IF s = "trade" THEN "Trade" ELSE "None"
                    /\ place_trace' = PlaceTrace(TRUE, q, s)
            /\ UNCHANGED <<limits, order_details, current_price, check_result,
                           connected>>
            /\ UNCHANGED <<stratVars, restVars>>

-----------------------------------------------------------------------------
(* CustomBroker._adjusted_price (src/backtesting_extensions.py).           *)
(*                                                                         *)
(* The broker is built with a callable commission model, as benchmark.py   *)
(* does; with a float the method hands over to the backtesting package.    *)
(* Sizes are in tenths (1 is the fraction 0.1 of equity that BaseStrategy  *)
(* asks for, 10 is one unit), prices are whole currency units, commission  *)
(* amounts are thousandths of a currency unit.  The quotient               *)
(* comm_amount / size is kept as a fraction of integers, so                *)
(*   price + comm_amount / size  is  (100 * size * price + comm) / (100 * size) *)

\* commission callables: commission(size, price) -> amount
CommissionModels == {"per_order", "per_share", "percent", "zero", "rebate"}

\* the amount a model charges; the size is signed
Commission(model, size, price) ==
    CASE model = "per_order" -> 1000
      [] model = "per_share" -> Abs(size)
      [] model = "percent"   -> price * Abs(size)
      [] model = "zero"      -> 0
      [] model = "rebate"    -> 0 - 1000

\* size arguments: omitted (None), 0, and signed sizes
SizeArgs == {PyNone} \cup { PyNum(n) : n \in {10, 1, 0, 0 - 1, 0 - 10} }

\* price arguments: omitted (None), 0, and prices
PriceArgs == {PyNone} \cup { PyNum(n) : n \in {100, 150, 0} }

LastPrices == {100, 105}

\* a float that is the quotient n / d, d # 0
Quotient(n, d) == IF d < 0 THEN [num |-> 0 - n, den |-> 0 - d]
                           ELSE [num |-> n, den |-> d]

\* the commission spread over the absolute size
AdjustedValue_AbsSize(size, price, comm_amount) ==
    LET q == Quotient(comm_amount, 100 * Abs(size))
    IN  [num |-> price * q.den + q.num, den |-> q.den]

\* the commission multiplied by the size
AdjustedValue_TimesSize(size, price, comm_amount) ==
    [num |-> 1000 * price + comm_amount * size * 10, den |-> 1000]

\* price + (comm_amount / size)
AdjustedValue(size, price, comm_amount) ==
    LET q == Quotient(comm_amount, 100 * size)
    IN  [num |-> price * q.den + q.num, den |-> q.den]

AdjNumber(x) == [t |-> "number", num |-> x.num, den |-> x.den]

AdjRaised(exc) == [t |-> exc, num |-> 0, den |-> 1]

(* _adjusted_price(size, price) on broker b.  With size None either the    *)
(* callable fails on it or the division does: a TypeError; with size 0 the *)
(* division raises ZeroDivisionError.                                      *)
_adjusted_price(b, size, price) ==
    LET p == IF IsNone(price) \/ price.v = 0 THEN b.last_price ELSE price.v
    IN  IF IsNone(size) THEN AdjRaised("TypeError")
        ELSE IF size.v = 0 THEN AdjRaised("ZeroDivisionError")
        ELSE AdjNumber(AdjustedValue(size.v, p, Commission(b.commission, size.v, p)))

NotAdjusted ==
    [size |-> PyNone, price |-> PyNone, last |-> 0,
     result |-> [t |-> "not_called", num |-> 0, den |-> 1]]

AdjCall(b, size, price) ==
    [size |-> size, price |-> price, last |-> b.last_price,
     result |-> _adjusted_price(b, size, price)]

\* an _adjusted_price that keeps the price it was given as the last price
AdjustedPrice_Caching ==
    \E size \in SizeArgs, price \in PriceArgs :
        /\ adj_call' = AdjCall(broker, size, price)
        /\ adj_prev' = adj_call
        /\ broker' = [broker EXCEPT !.last_price =
                          IF IsNone(price) \/ price.v = 0 THEN @ ELSE price.v]
        /\ UNCHANGED <<execVars, stratVars, place_trace, calls>>

AdjustedPrice ==
    \E size \in SizeArgs, price \in PriceArgs :
        /\ adj_call' = AdjCall(broker, size, price)
        /\ adj_prev' = adj_call
        /\ UNCHANGED broker
        /\ UNCHANGED <<execVars, stratVars, place_trace, calls>>

\* the engine moves to the next bar: another last price, orders come and go
BrokerTick ==
    /\ \E last \in LastPrices, n \in 0 .. 1 :
          /\ broker' = [broker EXCEPT !.last_price = last, !.orders = n]
          /\ broker' # broker
    /\ UNCHANGED <<adj_call, adj_prev>>
    /\ UNCHANGED <<execVars, stratVars, place_trace, calls>>

\* CustomBroker.__init__ with cash 10000 and a callable commission
BrokerInit ==
    /\ \E c \in CommissionModels, last \in LastPrices :
          broker = [cash |-> 10000, orders |-> 0, trades |-> 0,
                    last_price |-> last, commission |-> c]
    /\ adj_call = NotAdjusted
    /\ adj_prev = NotAdjusted

\* no backtest is running
BrokerIdle ==
    /\ broker = [cash |-> 10000, orders |-> 0, trades |-> 0,
                 last_price |-> 100, commission |-> "zero"]
    /\ adj_call = NotAdjusted
    /\ adj_prev = NotAdjusted

-----------------------------------------------------------------------------
(* One ExecutionManager serving several symbols' evaluation loops.         *)

\* check_order_limits calls made on one manager
MaxCalls == 3

\* a market order, a limit order inside the limits, one too far from the
\* market and one too large, for each symbol
ValidatorOrders ==
    { o \in Orders :
        /\ DOMAIN o = {"symbol", "action", "quantity", "order_type", "limit_price"}
        /\ o["action"] = "BUY"
        /\ <<o["quantity"], o["order_type"], o["limit_price"]>> \in
              { <<50, "MKT", PyNone>>, <<50, "LMT", PyNum(96)>>,
                <<50, "LMT", PyNum(94)>>, <<50, "LMT", PyNum(104)>> } }

ValidatorPrices == {100}

\* a manager that counts the shares it has let through per symbol
ValidatorCall_Accumulating ==
    /\ Len(calls) < MaxCalls
    /\ \E o \in ValidatorOrders, price \in ValidatorPrices :
          LET before == { i \in DOMAIN calls : calls[i].order["symbol"] = o["symbol"] }
              total  == o["quantity"] * (Cardinality(before) + 1)
              seen   == [o EXCEPT !["quantity"] = total]
          IN  calls' = Append(calls,
                  [order |-> o, price |-> price,
                   result |-> check_order_limits(seen, price, limits)])
    /\ UNCHANGED <<execVars, stratVars, place_trace, brokerVars>>

ValidatorCall ==
    /\ Len(calls) < MaxCalls
    /\ \E o \in ValidatorOrders, price \in ValidatorPrices :
          calls' = Append(calls,
              [order |-> o, price |-> price,
               result |-> check_order_limits(o, price, limits)])
    /\ UNCHANGED <<execVars, stratVars, place_trace, brokerVars>>

\* place_order has not been called
NotPlaced == PlaceTrace(FALSE, "not_called", "not_called")

-----------------------------------------------------------------------------
(* BaseStrategy (strategies/base_strategy.py) on the backtesting engine.   *)
(*                                                                         *)
(* The engine is the third-party backtesting package: for every bar it     *)
(* first lets its broker work through the waiting orders (stop orders of   *)
(* the open trades, trade-closing orders, then the orders placed by        *)
(* buy() / sell()), and then calls strategy.next().  A market order placed *)
(* in next() is filled at the following bar.  Trade sizes and cash are not *)
(* kept: what an entry order does to the position (cancelled for lack of   *)
(* margin, reduces or closes opposite trades, opens a trade) is drawn.     *)
(*                                                                         *)
(* Percentages are whole percents, stop levels are in hundredths of a      *)
(* currency unit, closes and ATRs are whole units, so that                 *)
(*   entry_price * (1 + take_profit_pct)   is  entry * (100 + pct) / 100   *)
(*   Close - atr * n_atr                   is  (100 * Close - pct * atr) / 100 *)
(* and every comparison is exact.                                          *)

stop_loss_pct == 2

DefaultTakeProfitPct == 5

\* take_profit_pct may be overridden by a child strategy or an optimisation
TakeProfitPcts == {0 - DefaultTakeProfitPct, 0, DefaultTakeProfitPct}

\* a trade that has no stop yet (trade.sl is None)
NoSL == 0

\* trades open at the same time
MaxTrades == 2

\* trades opened during one run
MaxOpened == 3

\* calls the child strategy makes in one next()
MaxSignals == 1

Prices == {95, 100, 105}

\* average true range of a bar: a quiet market, and one whose bars span
\* more than the price itself
AtrValues == {2, 200}

Bars ==
    { b \in [Open : Prices, High : Prices, Low : Prices, Close : Prices, atr : AtrValues] :
        /\ b.Low <= b.Open /\ b.Open <= b.High
        /\ b.Low <= b.Close /\ b.Close <= b.High }

Max(a, b) == IF a >= b THEN a ELSE b

Min(a, b) == IF a <= b THEN a ELSE b

\* self.position: true when the trades add up to a size other than 0
Position(ts) == Len(ts) > 0

\* position.is_long / position.is_short (without hedging all open trades
\* face the same way)
PositionIsLong(ts) == Len(ts) > 0 /\ ts[1].is_long

PositionIsShort(ts) == Len(ts) > 0 /\ ~ts[1].is_long

\* position.close(): one trade-closing order per open trade, put in front
\* of the trade's stop order
PositionClose(ts, origin) ==
    [i \in DOMAIN ts |->
        [ts[i] EXCEPT !.closes = Append(@, origin), !.sl_front = FALSE]]

CloseEvents(ts, by) == [i \in DOMAIN ts |-> [id |-> ts[i].id, is_long |-> ts[i].is_long, by |-> by]]

(* --- the broker's turn ------------------------------------------------- *)

\* the stop order of a trade is hit by the bar
StopHit(t, b) ==
    /\ t.sl # NoSL
    /\ IF t.is_long THEN 100 * b.Low <= t.sl ELSE 100 * b.High >= t.sl

\* a broker that works stop orders only
CloseCause_StopOnly(t, b) == IF StopHit(t, b) THEN "sl" ELSE ""

\* why the trade is closed on this bar, "" when it stays open: the order in
\* front is worked first and closes the trade, the other then finds it gone
CloseCause(t, b) ==
    IF t.sl_front
      THEN IF StopHit(t, b) THEN "sl"
           ELSE IF t.closes # <<>> THEN t.closes[Len(t.closes)] ELSE ""
      ELSE IF t.closes # <<>> THEN t.closes[Len(t.closes)]
           ELSE IF StopHit(t, b) THEN "sl" ELSE ""

\* a broker that leaves a stopped-out trade in the position
SurvivingTrades_Keeping(ts, b) == ts

RECURSIVE SurvivingTrades(_, _)
SurvivingTrades(ts, b) ==
    IF ts = <<>> THEN <<>>
    ELSE IF CloseCause(ts[1], b) = ""
           THEN <<ts[1]>> \o SurvivingTrades(Tail(ts), b)
           ELSE SurvivingTrades(Tail(ts), b)

RECURSIVE ExecutedCloses(_, _)
ExecutedCloses(ts, b) ==
    IF ts = <<>> THEN <<>>
    ELSE IF CloseCause(ts[1], b) = ""
           THEN ExecutedCloses(Tail(ts), b)
           ELSE <<[id |-> ts[1].id, is_long |-> ts[1].is_long,
                   by |-> CloseCause(ts[1], b)]>>
                    \o ExecutedCloses(Tail(ts), b)

NewTrade(id, is_long) ==
    [id |-> id, is_long |-> is_long, sl |-> NoSL, closes |-> <<>>,
     sl_front |-> FALSE, rising |-> TRUE]

\* what the broker can do with an order placed by buy() / sell()
EntryOutcomes == {"cancelled", "open", "close_first", "close_all", "reverse"}

Opposite(ts, o) == Len(ts) > 0 /\ ts[1].is_long # o.is_long

OutcomePossible(ts, o, out) ==
    CASE out = "cancelled"   -> TRUE
      [] out = "open"        -> ~Opposite(ts, o) /\ Len(ts) < MaxTrades
      [] out = "close_first" -> Opposite(ts, o) /\ Len(ts) > 1
      [] out = "close_all"   -> Opposite(ts, o)
      [] out = "reverse"     -> Opposite(ts, o)

\* state of the broker while it works through the entry orders
FillEntry(st, o, out) ==
    CASE out = "cancelled" -> st
      [] out = "open" ->
            [st EXCEPT !.ts = Append(@, NewTrade(st.id, o.is_long)), !.id = @ + 1]
      [] out = "close_first" ->
            [st EXCEPT !.ts = Tail(@),
                       !.ev = @ \o CloseEvents(<<st.ts[1]>>, "reverse")]
      [] out = "close_all" ->
            [st EXCEPT !.ts = <<>>, !.ev = @ \o CloseEvents(st.ts, "reverse")]
      [] out = "reverse" ->
            [st EXCEPT !.ts = <<NewTrade(st.id, o.is_long)>>, !.id = @ + 1,
                       !.ev = @ \o CloseEvents(st.ts, "reverse")]

RECURSIVE FillEntries(_, _, _)
FillEntries(st, os, outs) ==
    IF os = <<>> THEN st
    ELSE IF OutcomePossible(st.ts, os[1], outs[1])
           THEN FillEntries(FillEntry(st, os[1], outs[1]), Tail(os), Tail(outs))
           ELSE [st EXCEPT !.ok = FALSE]

\* the trade has seen no falling close since it was opened
StillRising(ts, old_close, new_close) ==
    [i \in DOMAIN ts |-> [ts[i] EXCEPT !.rising = @ /\ new_close >= old_close]]

(* The engine moves to bar b: broker.next(), then strategy.next() begins.  *)
BrokerNext ==
    /\ pc = "bar"
    /\ \E b \in Bars, outs \in [1 .. Len(entry_orders) -> EntryOutcomes] :
         LET st0 == [ts |-> StillRising(SurvivingTrades(trades, b), bar.Close, b.Close),
                     ev |-> ExecutedCloses(trades, b),
                     id |-> next_id, ok |-> TRUE]
             st  == FillEntries(st0, entry_orders, outs)
         IN  /\ st.ok
             /\ trades' = st.ts
             /\ events' = st.ev
             /\ next_id' = st.id
             /\ bar' = [Close |-> b.Close, atr |-> b.atr]
    /\ entry_orders' = <<>>
    /\ pc' = "next"
    /\ base_done' = FALSE
    /\ signals' = 0
    /\ UNCHANGED <<take_profit_pct, entry_price>>
    /\ UNCHANGED <<execVars, place_trace, restVars>>

(* --- BaseStrategy ------------------------------------------------------ *)

TakeProfitEnabled_Inclusive(pct) == pct >= 0

TakeProfitEnabled(pct) == pct > 0

TakeProfitLong_Strict(close, entry, pct) == 100 * close > entry * (100 + pct)

\* self.data.Close[-1] >= self.entry_price * (1 + self.take_profit_pct)
TakeProfitLong(close, entry, pct) == 100 * close >= entry * (100 + pct)

\* self.data.Close[-1] <= self.entry_price * (1 - self.take_profit_pct)
TakeProfitShort(close, entry, pct) == 100 * close <= entry * (100 - pct)

\* the take-profit branch of next() closes the position
TakeProfitCloses(ts, entry, close, pct) ==
    /\ TakeProfitEnabled(pct)
    /\ Position(ts)
    /\ ~IsNone(entry)
    /\ IF PositionIsLong(ts) THEN TakeProfitLong(close, entry.v, pct)
       ELSE PositionIsShort(ts) /\ TakeProfitShort(close, entry.v, pct)

\* init(): self.set_trailing_sl(self.stop_loss_pct) makes the percentage the
\* number of ATRs the stop trails by
n_atr == stop_loss_pct

\* a stop that follows the price both ways
TrailingStop_Following(t, close, atr) ==
    [t EXCEPT !.sl = IF t.is_long THEN 100 * close - atr * n_atr
                                  ELSE 100 * close + atr * n_atr,
              !.sl_front = TRUE]

\* TrailingStrategy.next(), per trade: the stop only ever moves toward the
\* price; setting trade.sl replaces the stop order, which goes to the front
TrailingStop(t, close, atr) ==
    LET long_sl  == 100 * close - atr * n_atr
        short_sl == 100 * close + atr * n_atr
    IN  [t EXCEPT !.sl = IF t.is_long
                           THEN (IF t.sl = NoSL THEN long_sl ELSE Max(t.sl, long_sl))
                           ELSE (IF t.sl = NoSL THEN short_sl ELSE Min(t.sl, short_sl)),
                  !.sl_front = TRUE]

TrailAll(ts, close, atr) == [i \in DOMAIN ts |-> TrailingStop(ts[i], close, atr)]

(* BaseStrategy.next(): the take-profit branch, then super().next().       *)
BaseNext ==
    /\ pc = "next"
    /\ ~base_done
    /\ LET tp == TakeProfitCloses(trades, entry_price, bar.Close, take_profit_pct)
           ts == IF tp THEN PositionClose(trades, "tp") ELSE trades
       IN  /\ trades' = TrailAll(ts, bar.Close, bar.atr)
           /\ entry_price' = IF tp THEN PyNone ELSE entry_price
           /\ events' = IF tp THEN events \o CloseEvents(trades, "tp_call") ELSE events
    /\ base_done' = TRUE
    /\ UNCHANGED <<take_profit_pct, bar, entry_orders, pc, signals, next_id>>
    /\ UNCHANGED <<execVars, place_trace, restVars>>

\* a size scaled down when the market is volatile
calculate_position_size_VolScaled == IF bar.atr > 2 THEN 5 ELSE 10

\* a percentage returned where a fraction is expected
calculate_position_size_Percent == 100 * 10

\* the fraction of equity in hundredths: return 0.1
calculate_position_size == 10

\* the child strategy may signal while the model can still number the trade
CanSignal ==
    /\ pc = "next"
    /\ signals < MaxSignals
    /\ Len(trades) + Len(entry_orders) < MaxTrades
    /\ next_id + Len(entry_orders) <= MaxOpened

buy_instrument ==
    /\ CanSignal
    /\ LET size == calculate_position_size
       IN  entry_orders' = Append(entry_orders, [is_long |-> TRUE, size |-> size])
    /\ entry_price' = PyNum(bar.Close)
    /\ signals' = signals + 1
    /\ UNCHANGED <<take_profit_pct, bar, trades, pc, base_done, next_id, events>>
    /\ UNCHANGED <<execVars, place_trace, restVars>>

sell_instrument ==
    /\ CanSignal
    /\ LET size == calculate_position_size
       IN  entry_orders' = Append(entry_orders, [is_long |-> FALSE, size |-> size])
    /\ entry_price' = PyNum(bar.Close)
    /\ signals' = signals + 1
    /\ UNCHANGED <<take_profit_pct, bar, trades, pc, base_done, next_id, events>>
    /\ UNCHANGED <<execVars, place_trace, restVars>>

(* The child strategy's own exit: self.position.close() in its next().     *)
ExplicitClose ==
    /\ pc = "next"
    /\ signals < MaxSignals
    /\ Position(trades)
    /\ trades' = PositionClose(trades, "explicit")
    /\ events' = events \o CloseEvents(trades, "explicit_call")
    /\ signals' = signals + 1
    /\ UNCHANGED <<take_profit_pct, bar, entry_price, entry_orders, pc, base_done,
                   next_id>>
    /\ UNCHANGED <<execVars, place_trace, restVars>>

\* next() returns; a child's next() is to call super().next()
EndNext ==
    /\ pc = "next"
    /\ base_done
    /\ pc' = "bar"
    /\ UNCHANGED <<take_profit_pct, bar, entry_price, trades, entry_orders,
                   base_done, signals, next_id, events>>
    /\ UNCHANGED <<execVars, place_trace, restVars>>

\* the strategy before init() is of no interest to the execution layer
StrategyIdle ==
    /\ take_profit_pct = DefaultTakeProfitPct
    /\ bar = [Close |-> 100, atr |-> 2]
    /\ entry_price = PyNone
    /\ trades = <<>>
    /\ entry_orders = <<>>
    /\ pc = "bar"
    /\ base_done = FALSE
    /\ signals = 0
    /\ next_id = 1
    /\ events = <<>>

\* the execution layer with nothing to do, while a backtest runs
ExecIdle ==
    /\ limits = [MAX_SHARES_PER_ORDER        |-> MAX_SHARES_PER_ORDER,
                 MAX_DOLLAR_VALUE_PER_ORDER  |-> MAX_DOLLAR_VALUE_PER_ORDER,
                 MAX_PRICE_DEVIATION_PERCENT |-> MAX_PRICE_DEVIATION_PERCENT]
    /\ order_details = [symbol |-> "AAPL", action |-> "BUY", quantity |-> 1]
    /\ current_price = 100
    /\ check_result = NotCalled
    /\ connected = FALSE
    /\ place_result = "not_called"
    /\ ib_calls = <<>>

(* After Backtest.run() has called init(): the first bar is about to be    *)
(* worked, the data before it ended at some close.                         *)
InitStrategy ==
    /\ ExecIdle
    /\ \/ take_profit_pct = DefaultTakeProfitPct
       \/ take_profit_pct \in TakeProfitPcts \ {DefaultTakeProfitPct}
    /\ bar \in [Close : Prices, atr : AtrValues]
    /\ entry_price = PyNone
    /\ trades = <<>>
    /\ entry_orders = <<>>
    /\ pc = "bar"
    /\ base_done = FALSE
    /\ signals = 0
    /\ next_id = 1
    /\ events = <<>>
    /\ place_trace = NotPlaced
    /\ BrokerIdle
    /\ calls = <<>>

NextStrategy ==
    \/ BrokerNext
    \/ BaseNext
    \/ buy_instrument
    \/ sell_instrument
    \/ ExplicitClose
    \/ EndNext

SpecStrategy == InitStrategy /\ [][NextStrategy]_vars

-----------------------------------------------------------------------------

Init ==
    /\ limits = [MAX_SHARES_PER_ORDER        |-> MAX_SHARES_PER_ORDER,
                 MAX_DOLLAR_VALUE_PER_ORDER  |-> MAX_DOLLAR_VALUE_PER_ORDER,
                 MAX_PRICE_DEVIATION_PERCENT |-> MAX_PRICE_DEVIATION_PERCENT]
    \* a quoted market price, or a zero / missing one
    /\ \/ current_price \in {p \in CurrentPrices : p > 0}
       \/ current_price \in {p \in CurrentPrices : p <= 0}
    /\ order_details \in Orders
    /\ check_result = NotCalled
    /\ connected = FALSE
    /\ place_result = "not_called"
    /\ ib_calls = <<>>
    /\ StrategyIdle
    /\ place_trace = NotPlaced
    /\ BrokerIdle
    /\ calls = <<>>

Next ==
    \/ CheckOrderLimits
    \/ Connect
    \/ Disconnect
    \/ PlaceOrder

Spec == Init /\ [][Next]_vars

-----------------------------------------------------------------------------

InitBroker ==
    /\ ExecIdle
    /\ StrategyIdle
    /\ place_trace = NotPlaced
    /\ calls = <<>>
    /\ BrokerInit

NextBroker ==
    \/ AdjustedPrice
    \/ BrokerTick

SpecBroker == InitBroker /\ [][NextBroker]_vars

InitValidator ==
    /\ ExecIdle
    /\ StrategyIdle
    /\ place_trace = NotPlaced
    /\ BrokerIdle
    /\ calls = <<>>

NextValidator == ValidatorCall

SpecValidator == InitValidator /\ [][NextValidator]_vars

-----------------------------------------------------------------------------
(* The terms of the specification's section 4.1, stated on the order in    *)
(* the caller's hands.                                                     *)

Called == check_result.outcome # "not_called"

Accepted == check_result.outcome = "True"

OrderIsLimit == IsLimitType(OrderType(order_details))

\* the order carries a limit price that is a number
LimitPriceIsNumber ==
    "limit_price" \in DOMAIN order_details /\ ~IsNone(order_details["limit_price"])

LimitPriceValue == LimitPrice(order_details).v

HasPositiveLimitPrice == LimitPriceIsNumber /\ LimitPriceValue > 0

\* "order.limit_price when the order type carries a limit price and that
\* price is > 0; otherwise current_price"
StatedExecutionPrice ==
    IF OrderIsLimit /\ HasPositiveLimitPrice THEN LimitPriceValue ELSE current_price

QuantityViolated == Quantity(order_details) > limits.MAX_SHARES_PER_ORDER

NotionalViolated ==
    StatedExecutionPrice * Quantity(order_details) > limits.MAX_DOLLAR_VALUE_PER_ORDER

\* |limit_price - current_price| / current_price > max_price_deviation_fraction
DeviationAbove(lp, p) ==
    Abs(lp - p) * limits.MAX_PRICE_DEVIATION_PERCENT.den
        > limits.MAX_PRICE_DEVIATION_PERCENT.num * p

DeviationViolated ==
    /\ OrderIsLimit
    /\ HasPositiveLimitPrice
    /\ current_price > 0
    /\ DeviationAbove(LimitPriceValue, current_price)

\* |limit_price - price| / price <= fraction, for a quotient that exists
DeviationWithin ==
    /\ LimitPriceIsNumber
    /\ current_price # 0
    /\ IF current_price > 0
         THEN ~DeviationAbove(LimitPriceValue, current_price)
         ELSE TRUE   \* a quotient <= 0

-----------------------------------------------------------------------------
\* C1: an order reaches ib.placeOrder only after check_order_limits has
\* returned true for that same order; an order that failed a check, or was
\* never validated, is never submitted.
C1_ValidatedBeforeSubmission ==
    \A i \in 1 .. Len(ib_calls) : ib_calls[i].checked = "True"

\* C2 as stated: quantity <= max_quantity, quantity * price <= max_notional
\* and, for a limit order, |limit_price - price| / price <= the fraction
\* together make check_order_limits return true.
C2_WithinLimitsAtMarketPriceAccepted ==
    ( /\ Called
      /\ ~QuantityViolated
      /\ Quantity(order_details) * current_price <= limits.MAX_DOLLAR_VALUE_PER_ORDER
      /\ (OrderIsLimit => DeviationWithin) )
    => Accepted

\* C2 amended: the same with the order value taken at the execution price
\* (the limit price of a limit order, the current price otherwise).
C2_WithinLimitsAccepted ==
    ( /\ Called
      /\ ~QuantityViolated
      /\ ~NotionalViolated
      /\ (OrderIsLimit => DeviationWithin) )
    => Accepted

\* the valid limit order of the tests: 10 shares, limit 155 at price 150
C2_Witness ==
    /\ Accepted
    /\ OrderIsLimit
    /\ HasPositiveLimitPrice /\ LimitPriceValue = 155
    /\ current_price = 150
    /\ Quantity(order_details) = 10

\* C3: an order violating exactly one of the three thresholds fails with
\* the kind of that threshold and with no other.
C3_SingleViolationKind ==
    Called =>
        /\ (QuantityViolated /\ ~NotionalViolated /\ ~DeviationViolated)
              => check_result.kind = "QuantityExceeded"
        /\ (~QuantityViolated /\ NotionalViolated /\ ~DeviationViolated)
              => check_result.kind = "NotionalExceeded"
        /\ (~QuantityViolated /\ ~NotionalViolated /\ DeviationViolated)
              => check_result.kind = "PriceDeviationExceeded"

\* C4: check_order_limits returns true only if every applicable check
\* passes.
C4_AcceptedOnlyWithinLimits ==
    Accepted => (~QuantityViolated /\ ~NotionalViolated /\ ~DeviationViolated)

\* C5: the notional check uses the limit price of a limit order when it is
\* > 0 and the current price in every other case, and fails with
\* NotionalExceeded exactly when that price times the quantity is above
\* max_notional (the quantity check having passed).
C5_ExecutionPriceAndNotional ==
    /\ Accepted => check_result.exec_price = StatedExecutionPrice
    /\ (Called /\ ~QuantityViolated)
          => (check_result.kind = "NotionalExceeded" <=> NotionalViolated)

\* C6: check_order_limits fails with QuantityExceeded if and only if
\* order.quantity > max_quantity, whatever the price or the order type.
C6_QuantityCheckStrict ==
    Called => (check_result.kind = "QuantityExceeded" <=> QuantityViolated)

\* one share above the limit, on a limit-type order
C6_Witness ==
    /\ Called
    /\ Quantity(order_details) = limits.MAX_SHARES_PER_ORDER + 1
    /\ OrderIsLimit
    /\ check_result.kind = "QuantityExceeded"

\* C7: a limit order with limit_price > 0 and current_price > 0 that passed
\* the quantity and notional checks fails with PriceDeviationExceeded
\* exactly when its deviation is above the fraction; a MKT order never
\* fails with PriceDeviationExceeded.
C7_DeviationLimitOrdersOnly ==
    Called =>
        /\ ( /\ OrderIsLimit
             /\ HasPositiveLimitPrice
             /\ current_price > 0
             /\ ~QuantityViolated
             /\ ~NotionalViolated )
           => ( check_result.kind = "PriceDeviationExceeded"
                  <=> DeviationAbove(LimitPriceValue, current_price) )
        /\ ~OrderIsLimit => check_result.kind # "PriceDeviationExceeded"

\* the fat-finger order of the tests: 1 share, limit 200 at price 150
C7_Witness ==
    /\ check_result.kind = "PriceDeviationExceeded"
    /\ OrderType(order_details) = "LMT"
    /\ LimitPriceValue = 200
    /\ current_price = 150
    /\ Quantity(order_details) = 1

\* C8: with current_price <= 0 the deviation check is skipped, so a limit
\* order that passes the quantity and notional checks is accepted whatever
\* its limit price.
C8_NoDeviationCheckWithoutPrice ==
    (Called /\ current_price <= 0) =>
        /\ check_result.kind # "PriceDeviationExceeded"
        /\ (OrderIsLimit /\ ~QuantityViolated /\ ~NotionalViolated) => Accepted

\* C9: a call of check_order_limits, whatever its outcome, leaves the order
\* record and the three limits as they were.
C9_CheckAdjustsNothing ==
    [][ check_result' # check_result
          => (order_details' = order_details /\ limits' = limits) ]_vars

\* a rejected oversized order, still oversized after the call
C9_Witness ==
    /\ check_result.kind = "QuantityExceeded"
    /\ Quantity(order_details) > limits.MAX_SHARES_PER_ORDER

\* C10: no limit-type order with a missing, zero or negative limit_price is
\* accepted by check_order_limits.
C10_AcceptedLimitOrderHasLimitPrice ==
    (Accepted /\ OrderIsLimit) => HasPositiveLimitPrice

-----------------------------------------------------------------------------
(* BaseStrategy: terms of the claims                                       *)

\* the step in which BaseStrategy.next() runs
BaseStep == pc = "next" /\ ~base_done /\ base_done'

\* a close order is added to an open trade in this step
CloseEmitted ==
    \E i \in DOMAIN trades : \E j \in DOMAIN trades' :
        /\ trades'[j].id = trades[i].id
        /\ Len(trades'[j].closes) > Len(trades[i].closes)

ClosePending(ts) == \E i \in DOMAIN ts : ts[i].closes # <<>>

TakeProfitPending(t) == \E k \in DOMAIN t.closes : t.closes[k] = "tp"

\* closes of one trade by the stop or by take-profit, in this update
StopOrTakeProfit == {"sl", "tp", "tp_call"}

\* C11: whenever the position goes from open to flat (stop, take-profit or
\* explicit close), entry_price is none afterwards.
C11_EntryPriceResetOnClose ==
    [][ (Position(trades) /\ ~Position(trades')) => entry_price' = PyNone ]_vars

\* C12: while a position is open and no close has been called for, no
\* operation (a further buy_instrument or sell_instrument included) changes
\* the recorded entry_price.
C12_EntryPriceSetOnce ==
    [][ ( /\ Position(trades) /\ Position(trades')
          /\ ~IsNone(entry_price)
          /\ ~ClosePending(trades') )
            => entry_price' = entry_price ]_vars

\* C13: entry_price becomes non-none only when an entry order has filled
\* and a position exists; an order submitted but not filled leaves it none.
C13_EntryPriceOnlyOnFill ==
    [][ (IsNone(entry_price) /\ ~IsNone(entry_price')) => Position(trades') ]_vars

\* C14: in every next() with an open position, a recorded entry_price and
\* take_profit_pct > 0, a close is emitted for a long position iff
\* Close >= entry_price * (1 + take_profit_pct), and for a short position
\* iff Close <= entry_price * (1 - take_profit_pct).
C14_TakeProfitIff ==
    [][ ( /\ BaseStep
          /\ Position(trades)
          /\ ~IsNone(entry_price)
          /\ take_profit_pct > 0 )
            => IF PositionIsLong(trades)
                 THEN CloseEmitted <=>
                        100 * bar.Close >= entry_price.v * (100 + take_profit_pct)
                 ELSE CloseEmitted <=>
                        100 * bar.Close <= entry_price.v * (100 - take_profit_pct) ]_vars

\* a long position closed for take-profit at 105 with 5 %
C14_Witness ==
    /\ base_done
    /\ take_profit_pct = 5
    /\ bar.Close = 105
    /\ \E i \in DOMAIN trades : trades[i].is_long /\ trades[i].closes = <<"tp">>
    /\ \E k \in DOMAIN events : events[k].by = "tp_call"

\* C15: with take_profit_pct <= 0 no step emits a take-profit close and a
\* recorded entry_price is never cleared.
C15_DisabledTakeProfit ==
    [][ take_profit_pct <= 0
          => /\ \A j \in DOMAIN trades' : ~TakeProfitPending(trades'[j])
             /\ \A k \in DOMAIN events' : events'[k].by \notin {"tp", "tp_call"}
             /\ ~IsNone(entry_price) => ~IsNone(entry_price') ]_vars

\* take_profit_pct = 0, a long position at or above its entry price, after
\* next() has run: nothing closed, entry_price kept
C15_Witness ==
    /\ take_profit_pct = 0
    /\ base_done
    /\ PositionIsLong(trades)
    /\ ~IsNone(entry_price)
    /\ bar.Close >= entry_price.v
    /\ ~ClosePending(trades)

C17_TakeProfitOnce ==
    /\ \A i \in DOMAIN trades :
           Cardinality({k \in DOMAIN trades[i].closes : trades[i].closes[k] = "tp"}) <= 1
    /\ (pc = "next" /\ ~base_done)
           => \A i \in DOMAIN trades : ~TakeProfitPending(trades[i])

\* long position, 5 % take-profit, price at 105: one close called, the
\* recorded entry_price cleared
C17_Witness ==
    /\ take_profit_pct = 5
    /\ bar.Close = 105
    /\ base_done
    /\ IsNone(entry_price)
    /\ Len(trades) = 1
    /\ trades[1].is_long
    /\ trades[1].closes = <<"tp">>
    /\ Len(events) = 1

\* C18: the stop of an open long trade never moves down, the stop of an
\* open short trade never moves up.
C18_StopMonotonic ==
    [][ \A i \in DOMAIN trades : \A j \in DOMAIN trades' :
          (trades'[j].id = trades[i].id /\ trades[i].sl # NoSL)
            => IF trades[i].is_long THEN trades'[j].sl >= trades[i].sl
                                    ELSE trades'[j].sl <= trades[i].sl ]_vars

\* the price fell back and the stop of a long trade stayed where it was
C18_Witness ==
    /\ base_done
    /\ \E i \in DOMAIN trades :
          /\ trades[i].is_long
          /\ trades[i].sl > 100 * bar.Close - bar.atr * stop_loss_pct

\* C19: for a long trade over rising closes the stop is active, lies
\* stop_loss_pct (2 %) of the peak price below it, and never further away.
C19_StopIsFractionOfPrice ==
    base_done =>
        \A i \in DOMAIN trades :
            (trades[i].is_long /\ trades[i].rising)
              => /\ trades[i].sl # NoSL
                 /\ 100 * bar.Close - trades[i].sl <= stop_loss_pct * bar.Close
                 /\ 100 * bar.Close - trades[i].sl = stop_loss_pct * bar.Close

-----------------------------------------------------------------------------
(* Sizing, price adjustment, limits over time: terms of the claims         *)

AdjCalled == adj_call.result.t # "not_called"

AdjSizeGiven == ~IsNone(adj_call.size) /\ adj_call.size.v # 0

AdjPriceGiven == ~IsNone(adj_call.price) /\ adj_call.price.v # 0

\* the price the adjustment starts from: the one passed, else the last price
AdjRawPrice == IF AdjPriceGiven THEN adj_call.price.v ELSE adj_call.last

\* what the commission model charges for the call's size and raw price
AdjCommission == Commission(broker.commission, adj_call.size.v, AdjRawPrice)

\* C22: for a signed size s and a raw price p the adjusted price is
\* p + commission(s, p) / s.
C22_AdjustedPriceFormula ==
    (AdjCalled /\ AdjSizeGiven /\ AdjPriceGiven) =>
        /\ adj_call.result.t = "number"
        /\ adj_call.result.num * (100 * adj_call.size.v)
             = (100 * adj_call.size.v * adj_call.price.v + AdjCommission)
                 * adj_call.result.den

\* selling one unit at 150 with a commission of 1 per order: 149
C22_Witness ==
    /\ adj_call.size = PyNum(0 - 10)
    /\ adj_call.price = PyNum(150)
    /\ broker.commission = "per_order"
    /\ adj_call.result.t = "number"
    /\ adj_call.result.num = 149 * adj_call.result.den

AdjSameArguments(a, b) == a.size = b.size /\ a.price = b.price /\ a.last = b.last

C24_DefaultLimitsKept ==
    /\ limits.MAX_SHARES_PER_ORDER = 100
    /\ limits.MAX_DOLLAR_VALUE_PER_ORDER = 5000
    /\ limits.MAX_PRICE_DEVIATION_PERCENT.num * 100
         = 5 * limits.MAX_PRICE_DEVIATION_PERCENT.den
    /\ (Called /\ current_price = 150 /\ Quantity(order_details) = 10)
         => /\ OrderType(order_details) = "MKT" => Accepted
            /\ (OrderType(order_details) = "LMT" /\ LimitPrice(order_details) = PyNum(155))
                 => Accepted

\* the LMT scenario after the order has gone through placement as well
C24_Witness ==
    /\ Accepted
    /\ current_price = 150
    /\ Quantity(order_details) = 10
    /\ OrderType(order_details) = "LMT"
    /\ LimitPrice(order_details) = PyNum(155)
    /\ Len(ib_calls) > 0

\* C25: check_order_limits never answers with a false result; each of its
\* rejections is an error naming the symbol, the offending value and the
\* limit it exceeds.
C25_RejectionsAreErrors ==
    Called =>
        /\ check_result.outcome \in {"True", "ValueError", "TypeError"}
        /\ check_result.outcome = "ValueError" =>
             /\ check_result.symbol = Symbol(order_details)
             /\ check_result.kind \in
                  {"QuantityExceeded", "NotionalExceeded", "PriceDeviationExceeded"}
             /\ check_result.kind = "QuantityExceeded" =>
                  /\ check_result.value = Quantity(order_details)
                  /\ check_result.limit = limits.MAX_SHARES_PER_ORDER
                  /\ check_result.value > check_result.limit
             /\ check_result.kind = "NotionalExceeded" =>
                  /\ check_result.limit = limits.MAX_DOLLAR_VALUE_PER_ORDER
                  /\ check_result.value > check_result.limit
             /\ check_result.kind = "PriceDeviationExceeded" =>
                  /\ check_result.value = LimitPriceValue
                  /\ check_result.limit * limits.MAX_PRICE_DEVIATION_PERCENT.den
                       = 100 * limits.MAX_PRICE_DEVIATION_PERCENT.num

\* SPY limit order 6 % above the market, rejected with its limit price
C25_Witness ==
    /\ check_result.outcome = "ValueError"
    /\ check_result.kind = "PriceDeviationExceeded"
    /\ check_result.symbol = "SPY"
    /\ check_result.value = 106
    /\ current_price = 100

C27_ViolationOrder ==
    Called =>
        /\ QuantityViolated =>
             (check_result.outcome = "ValueError" /\ check_result.kind = "QuantityExceeded")
        /\ (~QuantityViolated /\ NotionalViolated /\ DeviationViolated) =>
             (check_result.outcome = "ValueError" /\ check_result.kind = "NotionalExceeded")

\* within the quantity limit, too expensive and too far from the market
C27_Witness ==
    /\ Called
    /\ ~QuantityViolated
    /\ NotionalViolated
    /\ DeviationViolated
    /\ check_result.kind = "NotionalExceeded"

\* C28: a place_order call reaches ib.placeOrder at most once and only when
\* connected with a qualified contract; otherwise, and when ib.placeOrder
\* fails, it returns None.
C28_PlaceOrderGuards ==
    [][ <<place_result, place_trace, ib_calls>>' # <<place_result, place_trace, ib_calls>>
          => /\ Len(ib_calls') <= Len(ib_calls) + 1
             /\ place_result' \in {"Trade", "None"}
             /\ (~connected \/ place_trace'.qualify # "qualified")
                  => (ib_calls' = ib_calls /\ place_result' = "None")
             /\ ib_calls' # ib_calls
                  => (connected /\ place_trace'.qualify = "qualified")
             /\ place_trace'.placeOrder = "raises" => place_result' = "None" ]_vars

\* ib.placeOrder was reached once, failed, and None came back
C28_Witness ==
    /\ place_trace.placeOrder = "raises"
    /\ place_result = "None"
    /\ Len(ib_calls) = 1

\* C29: with a commission >= 0 the adjusted price is >= the raw price for
\* a buy and <= the raw price for a sell.
C29_AdjustmentDirection ==
    (AdjCalled /\ AdjSizeGiven /\ AdjCommission >= 0) =>
        /\ adj_call.result.t = "number"
        /\ adj_call.size.v > 0
             => adj_call.result.num >= AdjRawPrice * adj_call.result.den
        /\ adj_call.size.v < 0
             => adj_call.result.num <= AdjRawPrice * adj_call.result.den

\* a sell with a percentage commission, adjusted to below the raw price
C29_Witness ==
    /\ AdjCalled
    /\ AdjSizeGiven
    /\ adj_call.size.v < 0
    /\ AdjCommission > 0
    /\ adj_call.result.num < AdjRawPrice * adj_call.result.den

\* C30: every call returns a price, also with size 0 or omitted; with the
\* price omitted or 0 the broker's last price is the raw price.
C30_AlwaysReturnsPrice ==
    AdjCalled =>
        /\ adj_call.result.t = "number"
        /\ (~AdjPriceGiven /\ broker.commission = "zero")
             => adj_call.result.num = adj_call.last * adj_call.result.den

====
